---- MODULE Spec2Model ----
(***************************************************************************)
(* Speakofy (parental_control.py): registration, login, PDF upload with    *)
(* text extraction, a SQLite document store (tables users and files) and   *)
(* the question-answering page that loads one stored document and calls    *)
(* the hosted language model.                                              *)
(*                                                                         *)
(* Representation.  A Python str that the program trims or tests for       *)
(* emptiness (the extracted text) is a sequence of one-character strings.  *)
(* Names, e-mail addresses, passwords and file names are TLA+ strings.     *)
(* A Python value that may be None is a sequence of length at most one:    *)
(* None is << >> and a value v is << v >>.  A row id that is None is 0     *)
(* (AUTOINCREMENT ids start at 1).                                         *)
(***************************************************************************)
EXTENDS Integers, Sequences, FiniteSets, TLC

VARIABLES
    users,          \* table users: row i has id i (rows are never deleted)
    files,          \* table files, in insertion order
    seq,            \* sqlite_sequence for files: the largest id ever assigned
    logged_in,      \* st.session_state.logged_in, per session
    user_id,        \* st.session_state.user_id, per session (0 is None)
    name,           \* st.session_state.name, per session
    book_content,   \* st.session_state.book_content, per session (optional)
    selected,       \* history: id of the document the cache was last loaded from
    ev,             \* history: what the last script run did
    cur,            \* the module-level cursor c: rows left of its last statement
    tpc,            \* per thread: the store helper it is in, or "idle"
    targ,           \* per thread: the argument of that helper call
    tres,           \* per thread: what its last finished helper returned
    completed,      \* history: ids of the inserted files, in order of commit return
    uploaded_file,  \* the argument of an extract_pdf_text call: its pages' texts
    extracted       \* what that call returned (optional: None before it returns)

vars == <<users, files, seq, logged_in, user_id, name, book_content, selected,
          ev, cur, tpc, targ, tres, completed, uploaded_file, extracted>>

storeVars == <<users, files, seq>>
sessionVars == <<logged_in, user_id, name, book_content, selected>>
threadVars == <<cur, tpc, targ, tres, completed>>
extractVars == <<uploaded_file, extracted>>

-----------------------------------------------------------------------------
(* Bounds and input sets *)

MaxFiles == 3
MaxUsers == 2
\* The files the interleaved store helpers may insert.
MaxConcFiles == 2
\* The pages of a PDF handed to extract_pdf_text on its own.
MaxPages == 3

Sessions == {"s1", "s2"}
Emails == {"e1", "e2"}
Passwords == {"p", "q"}
SignupPasswords == {"p"}
Filenames == {"a.pdf"}
Buttons == {"none", "answer", "error"}
\* What is typed into the question box (it may be left empty).
Questions == { << >>, <<"w", "?">> }
\* What response.text holds when the model returns, and str(e) when it raises.
Responses == {"r1", "r2"}
Errors == {"quota"}
\* The one question and the one response of the runs that look at the store
\* and the sessions rather than at the answer.
OneQuestion == { <<"w", "?">> }
OneResponse == {"r1"}

\* The (name, email) pairs typed into the signup form.
SignupForms == { <<"A", "e1">>, <<"", "e2">>, <<"A", "e2">> }
\* The pair the interleaved add_user calls insert.
ConcForms == { <<"A", "e1">> }

None == << >>
Some(v) == << v >>

\* The characters a text is made of, and the ones str.strip() removes.
Whitespace == {" ", "\n"}

\* An uploaded PDF is the sequence of what page.extract_text() returns per page.
UploadPDFs ==
    { << >>,
      << <<" ">> >>,
      << <<"x">> >>,
      << << >>, <<"x">>, <<"y">> >> }

\* What page.extract_text() may return for one page: nothing (None or ""),
\* white space only, or text with white space before or after it.
PageTexts == { << >>, <<" ">>, <<"x">>, <<"\n", "y">>, <<"z", " ">> }

\* The PDFs of up to MaxPages pages.
ExtractPDFs == UNION { [1..n -> PageTexts] : n \in 0..MaxPages }

\* Dates as the (year, month, day) the program reads from them.
Date(y, m, d) == [year |-> y, month |-> m, day |-> d]
Today == Date(2025, 6, 15)
Dobs == { Date(2000, 6, 15), Date(2000, 6, 16) }

-----------------------------------------------------------------------------
(* Pure helpers *)

\* Truthy with a plausible fault: the test "is not None" in place of truthiness.
Truthy_IsNotNone(opt) == opt # None

\* Python truthiness of an optional str: None and "" are falsy.
Truthy(opt) == opt # None /\ opt[1] # << >>

\* (a, b) < (c, d) on tuples, as a 0/1 integer.
TupleLess(a, b, c, d) == IF a < c \/ (a = c /\ b < d) THEN 1 ELSE 0

calculate_age(today, dob) ==
    today.year - dob.year - TupleLess(today.month, today.day, dob.month, dob.day)

RECURSIVE LStrip(_)
LStrip(s) == IF s # << >> /\ Head(s) \in Whitespace THEN LStrip(Tail(s)) ELSE s

RECURSIVE RStrip(_)
RStrip(s) ==
    IF s # << >> /\ s[Len(s)] \in Whitespace
    THEN RStrip(SubSeq(s, 1, Len(s) - 1))
    ELSE s

Strip(s) == RStrip(LStrip(s))

\* AppendPages with a plausible fault: the test "if pg" is missing.
RECURSIVE AppendPages_NoSkip(_, _)
AppendPages_NoSkip(text, pages) ==
    IF pages = << >> THEN text
    ELSE AppendPages_NoSkip(text \o Head(pages) \o <<"\n">>, Tail(pages))

\* The loop of extract_pdf_text: text += pg + "\n" for every truthy page text.
RECURSIVE AppendPages(_, _)
AppendPages(text, pages) ==
    IF pages = << >> THEN text
    ELSE AppendPages(IF Head(pages) # << >> THEN text \o Head(pages) \o <<"\n">>
                                           ELSE text,
                     Tail(pages))

extract_pdf_text(pdf) == Strip(AppendPages(<< >>, pdf))

-----------------------------------------------------------------------------
(* The store: SQL statements as functions of the tables *)

RECURSIVE Reverse(_)
Reverse(s) == IF s = << >> THEN << >> ELSE Append(Reverse(Tail(s)), Head(s))


\* INSERT INTO users ...: the new row gets the next id.
add_user(us, nm, email, password, dob) ==
    Append(us, [id |-> Len(us) + 1, name |-> nm, email |-> email,
                password |-> password, dob |-> dob])

\* SELECT * FROM users WHERE email = ? AND password = ?, then fetchone().
get_user(us, email, password) ==
    LET rows == SelectSeq(us, LAMBDA u : u.email = email /\ u.password = password)
    IN  IF rows = << >> THEN None ELSE Some(rows[1])

\* SELECT 1 FROM users WHERE email = ?, then fetchone(), as a truth value.
user_exists(us, email) ==
    SelectSeq(us, LAMBDA u : u.email = email) # << >>

\* save_file with a plausible fault: INSERT OR REPLACE keyed by owner and file name.
save_file_Replace(fs, sq, uid, filename, content) ==
    Append(SelectSeq(fs, LAMBDA f : ~(f.user_id = uid /\ f.filename = filename)),
           [id |-> sq + 1, user_id |-> uid, filename |-> filename,
            content |-> content])

\* INSERT INTO files ...: AUTOINCREMENT gives the row the id after the largest
\* one ever assigned.
save_file(fs, sq, uid, filename, content) ==
    Append(fs, [id |-> sq + 1, user_id |-> uid, filename |-> filename,
                content |-> content])

\* The rows of files ORDER BY id DESC (files is kept in ascending id order).
OrderByIdDesc(fs) == Reverse(fs)

\* get_user_last_file_content with a plausible fault: the WHERE user_id = ? is missing.
get_user_last_file_content_AnyOwner(fs, uid) ==
    LET rows == OrderByIdDesc(fs)
    IN  IF rows = << >> THEN None ELSE Some(rows[1].content)

\* SELECT content FROM files WHERE user_id = ? ORDER BY id DESC LIMIT 1.
get_user_last_file_content(fs, uid) ==
    LET rows == SelectSeq(OrderByIdDesc(fs), LAMBDA f : f.user_id = uid)
    IN  IF rows = << >> THEN None ELSE Some(rows[1].content)

\* LEFT JOIN users u ON u.id = f.user_id: the user's id and name, or NULLs.
JoinUser(us, f) ==
    LET rows == SelectSeq(us, LAMBDA u : u.id = f.user_id)
    IN  IF rows = << >>
        THEN [id |-> f.id, filename |-> f.filename, user_id |-> 0, uname |-> None]
        ELSE [id |-> f.id, filename |-> f.filename, user_id |-> rows[1].id,
              uname |-> Some(rows[1].name)]

\* SELECT f.id, f.filename, u.id, u.name ... ORDER BY f.id DESC, then fetchall().
RECURSIVE JoinUsers(_, _)
JoinUsers(us, fs) ==
    IF fs = << >> THEN << >>
    ELSE <<JoinUser(us, Head(fs))>> \o JoinUsers(us, Tail(fs))

get_all_files(fs, us) == JoinUsers(us, OrderByIdDesc(fs))

\* get_file_content_by_id with a plausible fault: ORDER BY id DESC LIMIT 1 in
\* place of WHERE id = ?.
get_file_content_by_id_Latest(fs, fid) ==
    IF fs = << >> THEN None ELSE Some(fs[Len(fs)].content)

\* get_file_content_by_id with a plausible fault: the WHERE id = ? is missing.
get_file_content_by_id_AnyRow(fs, fid) ==
    IF fs = << >> THEN None ELSE Some(fs[1].content)

\* SELECT content FROM files WHERE id = ?, then fetchone().
get_file_content_by_id(fs, fid) ==
    LET rows == SelectSeq(fs, LAMBDA f : f.id = fid)
    IN  IF rows = << >> THEN None ELSE Some(rows[1].content)

-----------------------------------------------------------------------------
(* The Q&A page's option list *)

\* f"{fname} (by {uname if uname else 'Unknown'})"
Label(row) ==
    row.filename \o " (by "
        \o (IF row.uname # None /\ row.uname[1] # "" THEN row.uname[1] ELSE "Unknown")
        \o ")"

\* The dict comprehension {label: fid for ... in all_files}: a key keeps the
\* position of its first insertion and the value of its last.
RECURSIVE DictKeys(_, _)
DictKeys(rows, keys) ==
    IF rows = << >> THEN keys
    ELSE DictKeys(Tail(rows),
                  IF \E i \in 1..Len(keys) : keys[i] = Label(Head(rows))
                  THEN keys ELSE Append(keys, Label(Head(rows))))

\* list(options.keys())
OptionKeys(all_files) == DictKeys(all_files, << >>)

\* options[label]: the fid of the last row carrying the label.
OptionValue(all_files, label) ==
    LET idx == {i \in 1..Len(all_files) : Label(all_files[i]) = label}
        last == CHOOSE i \in idx : \A j \in idx : j <= i
    IN  all_files[last].id

\* LoadSelected with a plausible fault: the content is cached whether or not it is truthy.
LoadSelected_CacheAlways(fs, cache, fid) ==
    LET content == get_file_content_by_id(fs, fid)
    IN  [content |-> content, cache |-> content, found |-> Truthy(content)]

\* Lines 176-182: load the selected book and cache it when it is truthy.
LoadSelected(fs, cache, fid) ==
    LET content == get_file_content_by_id(fs, fid)
    IN  [content |-> content,
         cache |-> IF Truthy(content) THEN content ELSE cache,
         found |-> Truthy(content)]

-----------------------------------------------------------------------------
(* History helpers (not program state) *)

\* What a script run did: the branch it took (op), the session (s), how often
\* it called model.generate_content (calls) and with what (question, prompt),
\* what the model did on the last call (model) and what the run wrote for the
\* answer (shown).
NoOutput == [kind |-> "none", text |-> ""]

Event(op, s) ==
    [op |-> op, s |-> s, calls |-> 0, question |-> << >>, prompt |-> << >>,
     model |-> NoOutput, shown |-> NoOutput]

MaxOf(S) == IF S = {} THEN 0 ELSE CHOOSE m \in S : \A n \in S : n <= m

FileIds(fs) == {fs[i].id : i \in 1..Len(fs)}

FileById(fs, fid) == CHOOSE f \in {fs[i] : i \in 1..Len(fs)} : f.id = fid

-----------------------------------------------------------------------------
(* Initial state: empty tables (lines 20-39), fresh sessions (lines 97-104) *)

Init ==
    /\ users = << >>
    /\ files = << >>
    /\ seq = 0
    /\ logged_in = [s \in Sessions |-> FALSE]
    /\ user_id = [s \in Sessions |-> 0]
    /\ name = [s \in Sessions |-> ""]
    /\ book_content = [s \in Sessions |-> None]
    /\ selected = [s \in Sessions |-> 0]
    /\ ev = Event("start", "")
    /\ cur = << >>
    /\ tpc = [s \in Sessions |-> "idle"]
    /\ targ = [s \in Sessions |-> [n |-> 0, hit |-> FALSE]]
    /\ tres = [s \in Sessions |-> None]
    /\ completed = << >>
    /\ uploaded_file = << >>
    /\ extracted = None

-----------------------------------------------------------------------------
(* Script runs.  One action is one run of the script for one session: the  *)
(* page the session is on, with the button it pressed.                     *)

\* Login with a plausible fault: the user's last book is not preloaded.
Login_NoPreload(s, email, password) ==
    /\ ~logged_in[s]
    /\ LET user == get_user(users, email, password)
       IN  IF user # None
           THEN /\ logged_in' = [logged_in EXCEPT ![s] = TRUE]
                /\ user_id' = [user_id EXCEPT ![s] = user[1].id]
                /\ name' = [name EXCEPT ![s] = user[1].name]
                /\ ev' = Event("login_ok", s)
                /\ UNCHANGED <<book_content, selected>>
           ELSE /\ ev' = Event("login_invalid", s)
                /\ UNCHANGED sessionVars
    /\ UNCHANGED <<storeVars, threadVars, extractVars>>

\* Lines 116-126: the Login button.
Login(s, email, password) ==
    /\ ~logged_in[s]
    /\ LET user == get_user(users, email, password)
       IN  IF user # None
           THEN /\ logged_in' = [logged_in EXCEPT ![s] = TRUE]
                /\ user_id' = [user_id EXCEPT ![s] = user[1].id]
                /\ name' = [name EXCEPT ![s] = user[1].name]
                /\ book_content' = [book_content EXCEPT ![s] =
                                        get_user_last_file_content(files, user[1].id)]
                /\ selected' = [selected EXCEPT ![s] =
                        MaxOf({f \in FileIds(files) :
                                  FileById(files, f).user_id = user[1].id})]
                /\ ev' = Event("login_ok", s)
           ELSE /\ ev' = Event("login_invalid", s)
                /\ UNCHANGED sessionVars
    /\ UNCHANGED <<storeVars, threadVars, extractVars>>

\* Lines 134-144: the Signup button.
Signup(s, nm, email, password_s, confirm_password, dob) ==
    /\ ~logged_in[s]
    /\ Len(users) < MaxUsers
    /\ IF calculate_age(Today, dob) < 25
       THEN ev' = Event("signup_underage", s) /\ UNCHANGED users
       ELSE IF password_s # confirm_password
       THEN ev' = Event("signup_mismatch", s) /\ UNCHANGED users
       ELSE IF user_exists(users, email)
       THEN ev' = Event("signup_exists", s) /\ UNCHANGED users
       ELSE /\ users' = add_user(users, nm, email, password_s, dob)
            /\ ev' = Event("signup_ok", s)
    /\ UNCHANGED <<files, seq, sessionVars, threadVars, extractVars>>

\* UploadRejected with a plausible fault: the text is cached before it is tested.
UploadRejected_CacheFirst(s) ==
    /\ ev' = Event("upload_empty", s)
    /\ book_content' = [book_content EXCEPT ![s] = Some(<< >>)]
    /\ UNCHANGED <<files, seq, selected>>

\* Lines 151-152: the extraction gave nothing; only the error is shown.
UploadRejected(s) ==
    /\ ev' = Event("upload_empty", s)
    /\ UNCHANGED <<files, seq, book_content, selected>>

\* Lines 153-157: store the text and cache it in the session.
UploadAccepted(s, filename, text) ==
    /\ files' = save_file(files, seq, user_id[s], filename, text)
    /\ seq' = files'[Len(files')].id
    /\ book_content' = [book_content EXCEPT ![s] = Some(text)]
    /\ selected' = [selected EXCEPT ![s] = files'[Len(files')].id]
    /\ ev' = Event("upload_ok", s)

\* Upload with a plausible fault: the uploader is shown without the login test.
Upload_NoGate(s, pdf, filename) ==
    /\ seq < MaxFiles
    /\ LET text == extract_pdf_text(pdf)
       IN  IF ~Truthy(Some(text))
           THEN UploadRejected(s)
           ELSE UploadAccepted(s, filename, text)
    /\ UNCHANGED <<users, logged_in, user_id, name, threadVars, extractVars>>

\* Lines 146-157: the Upload PDF button.
Upload(s, pdf, filename) ==
    /\ logged_in[s]
    /\ seq < MaxFiles
    /\ LET text == extract_pdf_text(pdf)
       IN  IF ~Truthy(Some(text))
           THEN UploadRejected(s)
           ELSE UploadAccepted(s, filename, text)
    /\ UNCHANGED <<users, logged_in, user_id, name, threadVars, extractVars>>

\* Lines 163-164: the Q&A page of a session that is not logged in.
QALoginFirst(s) ==
    /\ ~logged_in[s]
    /\ ev' = Event("qa_login_first", s)
    /\ UNCHANGED <<storeVars, sessionVars, threadVars, extractVars>>

\* QAEmpty with a plausible fault: the session user's own files are counted
\* in place of all files.
QAEmpty_OwnFiles(s) ==
    /\ logged_in[s]
    /\ SelectSeq(files, LAMBDA f : f.user_id = user_id[s]) = << >>
    /\ ev' = Event("qa_no_books", s)
    /\ UNCHANGED <<storeVars, sessionVars, threadVars, extractVars>>

\* Lines 167-169: the Q&A page when no file is stored.
QAEmpty(s) ==
    /\ logged_in[s]
    /\ get_all_files(files, users) = << >>
    /\ ev' = Event("qa_no_books", s)
    /\ UNCHANGED <<storeVars, sessionVars, threadVars, extractVars>>

\* What model.generate_content may do on a press: return one of Responses
\* ("answer") or raise one of Errors ("error").
ModelTexts(button, responses, errors) ==
    IF button = "answer" THEN responses
    ELSE IF button = "error" THEN errors
    ELSE {""}

\* The question box is read only when the button was pressed.
QuestionsRead(button, questions) ==
    IF button = "none" THEN { << >> } ELSE questions

\* Lines 187-193: the prompt, as the sequence of its literal pieces and of the
\* characters of the two interpolated values.
Prompt(content, question) ==
    << "You are a helpful tutor. Answer ONLY using the following book content. If the answer isn't present, say you don't know.\n\n",
       "BOOK CONTENT:\n" >>
    \o content \o << "\n\n", "QUESTION:\n" >>
    \o question \o << "\n\n", "ANSWER:" >>

\* GetAnswer with a plausible fault: a failed call is tried once more.
GetAnswer_Retry(content, question, button, text) ==
    [calls |-> IF button = "error" THEN 2 ELSE 1,
     question |-> question,
     prompt |-> Prompt(content, question),
     shown |-> IF button = "answer"
               THEN [kind |-> "answer", text |-> text]
               ELSE [kind |-> "error", text |-> "Error: " \o text]]

\* Lines 185-198: Get Answer was pressed.  One generate_content(prompt) call
\* inside try; st.write of response.text when it returns, st.error of the
\* exception when it raises.
GetAnswer(content, question, button, text) ==
    [calls |-> 1,
     question |-> question,
     prompt |-> Prompt(content, question),
     shown |-> IF button = "answer"
               THEN [kind |-> "answer", text |-> text]
               ELSE [kind |-> "error", text |-> "Error: " \o text]]

\* Lines 170-198: the Q&A page.  selected_label is the option chosen in the
\* selectbox (one of the listed keys); button is "none" when Get Answer was
\* not pressed, and else says whether model.generate_content returned
\* ("answer") or raised ("error").  questions, responses and errors are what
\* may be typed and what the model may return or raise.
QAPageOn(s, questions, responses, errors) ==
    /\ logged_in[s]
    /\ LET all_files == get_all_files(files, users)
           keys == OptionKeys(all_files)
       IN  /\ all_files # << >>
           /\ \E k \in 1..Len(keys) :
                 LET selected_label == keys[k]
                     selected_file_id == OptionValue(all_files, selected_label)
                     r == LoadSelected(files, book_content[s], selected_file_id)
                 IN  /\ book_content' = [book_content EXCEPT ![s] = r.cache]
                     /\ selected' = [selected EXCEPT ![s] =
                                       IF r.found THEN selected_file_id ELSE @]
                     /\ \E button \in Buttons :
                          \E question \in QuestionsRead(button, questions),
                             text \in ModelTexts(button, responses, errors) :
                           ev' = IF ~r.found THEN Event("qa_could_not_load", s)
                                 ELSE IF button = "none" THEN Event("qa_view", s)
                                 ELSE LET g == GetAnswer(r.content[1], question,
                                                         button, text)
                                      IN  [op |-> IF button = "answer"
                                                  THEN "qa_answer" ELSE "qa_error",
                                           s |-> s, calls |-> g.calls,
                                           question |-> g.question,
                                           prompt |-> g.prompt,
                                           model |-> [kind |-> button,
                                                      text |-> text],
                                           shown |-> g.shown]
    /\ UNCHANGED <<storeVars, logged_in, user_id, name, threadVars, extractVars>>

QAPage(s) == QAPageOn(s, OneQuestion, OneResponse, Errors)

\* Lines 97-104: a new browser session takes the slot, with fresh state.
NewSession(s) ==
    /\ logged_in[s]
    /\ logged_in' = [logged_in EXCEPT ![s] = FALSE]
    /\ user_id' = [user_id EXCEPT ![s] = 0]
    /\ name' = [name EXCEPT ![s] = ""]
    /\ book_content' = [book_content EXCEPT ![s] = None]
    /\ selected' = [selected EXCEPT ![s] = 0]
    /\ ev' = Event("new_session", s)
    /\ UNCHANGED <<storeVars, threadVars, extractVars>>

Next ==
    \/ \E s \in Sessions, e \in Emails, p \in Passwords : Login(s, e, p)
    \/ \E s \in Sessions, f \in SignupForms, p \in SignupPasswords,
          c \in Passwords, d \in Dobs : Signup(s, f[1], f[2], p, c, d)
    \/ \E s \in Sessions, pdf \in UploadPDFs, f \in Filenames : Upload(s, pdf, f)
    \/ \E s \in Sessions : QALoginFirst(s)
    \/ \E s \in Sessions : QAEmpty(s)
    \/ \E s \in Sessions : QAPage(s)
    \/ \E s \in Sessions : NewSession(s)

Spec == Init /\ [][Next]_vars

-----------------------------------------------------------------------------
(* extract_pdf_text on its own: one call for each PDF of ExtractPDFs.       *)

InitExtract ==
    /\ users = << >>
    /\ files = << >>
    /\ seq = 0
    /\ logged_in = [s \in Sessions |-> FALSE]
    /\ user_id = [s \in Sessions |-> 0]
    /\ name = [s \in Sessions |-> ""]
    /\ book_content = [s \in Sessions |-> None]
    /\ selected = [s \in Sessions |-> 0]
    /\ ev = Event("start", "")
    /\ cur = << >>
    /\ tpc = [s \in Sessions |-> "idle"]
    /\ targ = [s \in Sessions |-> [n |-> 0, hit |-> FALSE]]
    /\ tres = [s \in Sessions |-> None]
    /\ completed = << >>
    /\ uploaded_file \in ExtractPDFs
    /\ extracted = None

\* Lines 83-90: the call returns.
Extract ==
    /\ extracted = None
    /\ extracted' = Some(extract_pdf_text(uploaded_file))
    /\ UNCHANGED <<storeVars, sessionVars, ev, threadVars, uploaded_file>>

NextExtract == Extract

SpecExtract == InitExtract /\ [][NextExtract]_vars

-----------------------------------------------------------------------------
(* The Q&A page with every question and every model outcome, beside signup, *)
(* login and upload.                                                        *)

QAPageAsk(s) == QAPageOn(s, Questions, Responses, Errors)

NextQA ==
    \/ \E s \in Sessions, e \in Emails, p \in Passwords : Login(s, e, p)
    \/ \E s \in Sessions, f \in SignupForms, p \in SignupPasswords,
          c \in Passwords, d \in Dobs : Signup(s, f[1], f[2], p, c, d)
    \/ \E s \in Sessions, pdf \in UploadPDFs, f \in Filenames : Upload(s, pdf, f)
    \/ \E s \in Sessions : QAPageAsk(s)

SpecQA == Init /\ [][NextQA]_vars

-----------------------------------------------------------------------------
(* The load step on its own: lines 176-182 run for a selected_file_id that  *)
(* is given from outside the option list, so that it may name no row.      *)
(* SpecSel runs it in place of the Q&A page, beside signup, login and       *)
(* upload.                                                                 *)

ProbeIds == 0..(MaxFiles + 1)

LoadSelectedCall(s, selected_file_id) ==
    /\ logged_in[s]
    /\ LET r == LoadSelected(files, book_content[s], selected_file_id)
       IN  /\ book_content' = [book_content EXCEPT ![s] = r.cache]
           /\ selected' = [selected EXCEPT ![s] =
                             IF r.found THEN selected_file_id ELSE @]
           /\ ev' = Event(IF r.found THEN "load_ok" ELSE "load_could_not_load", s)
    /\ UNCHANGED <<storeVars, logged_in, user_id, name, threadVars, extractVars>>

NextSel ==
    \/ \E s \in Sessions, e \in Emails, p \in Passwords : Login(s, e, p)
    \/ \E s \in Sessions, f \in SignupForms, p \in SignupPasswords,
          c \in Passwords, d \in Dobs : Signup(s, f[1], f[2], p, c, d)
    \/ \E s \in Sessions, pdf \in UploadPDFs, f \in Filenames : Upload(s, pdf, f)
    \/ \E s \in Sessions, fid \in ProbeIds : LoadSelectedCall(s, fid)

SpecSel == Init /\ [][NextSel]_vars

-----------------------------------------------------------------------------
(* The store helpers (lines 42-80) at statement granularity.  conn and c   *)
(* are module-level and the connection is opened with                      *)
(* check_same_thread=False, so the threads that run the sessions' scripts  *)
(* issue their statements on the one cursor.  A thread runs c.execute,     *)
(* then c.fetchone / c.fetchall / conn.commit; another thread may run a    *)
(* statement in between.                                                   *)

\* SQL values, all of one record shape so that any two can be compared.
IntV(n) == [t |-> "int", i |-> n, str |-> "", txt |-> << >>]
StrV(x) == [t |-> "str", i |-> 0, str |-> x, txt |-> << >>]
TextV(x) == [t |-> "text", i |-> 0, str |-> "", txt |-> x]
NullV == [t |-> "null", i |-> 0, str |-> "", txt |-> << >>]
\* str(dob), kept as the number yyyymmdd.
DateV(d) == [t |-> "date", i |-> d.year * 10000 + d.month * 100 + d.day,
             str |-> "", txt |-> << >>]

\* One result row per SELECT, from the table row it is read from.
Row_get_user(u) ==
    <<IntV(u.id), StrV(u.name), StrV(u.email), StrV(u.password), DateV(u.dob)>>

Row_get_all_files(r) ==
    <<IntV(r.id), StrV(r.filename),
      IF r.uname = None THEN NullV ELSE IntV(r.user_id),
      IF r.uname = None THEN NullV ELSE StrV(r.uname[1])>>

RECURSIVE RowsOf(_, _)
RowsOf(kind, s) ==
    IF s = << >> THEN << >>
    ELSE << CASE kind = "get_user" -> Row_get_user(Head(s))
              [] kind = "user_exists" -> <<IntV(1)>>
              [] kind = "get_all_files" -> Row_get_all_files(Head(s))
              [] OTHER -> <<TextV(Head(s).content)>> >>
         \o RowsOf(kind, Tail(s))

\* The result rows of each SELECT.
Rows_get_user(us, email, password) ==
    RowsOf("get_user",
           SelectSeq(us, LAMBDA u : u.email = email /\ u.password = password))

Rows_user_exists(us, email) ==
    RowsOf("user_exists", SelectSeq(us, LAMBDA u : u.email = email))

Rows_get_user_last_file_content(fs, uid) ==
    LET rows == SelectSeq(OrderByIdDesc(fs), LAMBDA f : f.user_id = uid)
    IN  IF rows = << >> THEN << >> ELSE RowsOf("content", <<rows[1]>>)

Rows_get_all_files(fs, us) == RowsOf("get_all_files", get_all_files(fs, us))

Rows_get_file_content_by_id(fs, fid) ==
    RowsOf("content", SelectSeq(fs, LAMBDA f : f.id = fid))

\* What a thread remembers of its call, and what a finished call returned.
Arg(n, hit) == [n |-> n, hit |-> hit]
NoArg == Arg(0, FALSE)
Result(fn, arg, rows) == [fn |-> fn, arg |-> arg, rows |-> rows]

\* c.execute of a SELECT by thread th: the cursor now holds its rows.
ExecuteSelect(th, fn, arg, rows) ==
    /\ tpc[th] = "idle"
    /\ cur' = rows
    /\ tpc' = [tpc EXCEPT ![th] = fn]
    /\ targ' = [targ EXCEPT ![th] = arg]
    /\ tres' = [tres EXCEPT ![th] = None]
    /\ UNCHANGED <<storeVars, sessionVars, ev, completed, extractVars>>

\* c.fetchone(): the next row of whatever the cursor holds, or None.
FetchOne(th, fn) ==
    /\ tpc[th] = fn
    /\ tres' = [tres EXCEPT ![th] =
                  Some(Result(fn, targ[th],
                              IF cur = << >> THEN << >> ELSE <<Head(cur)>>))]
    /\ cur' = IF cur = << >> THEN << >> ELSE Tail(cur)
    /\ tpc' = [tpc EXCEPT ![th] = "idle"]
    /\ UNCHANGED <<storeVars, sessionVars, ev, targ, completed, extractVars>>

\* Line 47, then line 48.
get_user_execute(th, email, password) ==
    ExecuteSelect(th, "get_user", NoArg, Rows_get_user(users, email, password))

get_user_fetchone(th) == FetchOne(th, "get_user")

\* Line 51, then line 52.
user_exists_execute(th, email) ==
    ExecuteSelect(th, "user_exists", NoArg, Rows_user_exists(users, email))

user_exists_fetchone(th) == FetchOne(th, "user_exists")

\* Line 63, then lines 64-65.
get_user_last_file_content_execute(th, uid) ==
    ExecuteSelect(th, "get_user_last_file_content", Arg(uid, FALSE),
                  Rows_get_user_last_file_content(files, uid))

get_user_last_file_content_fetchone(th) ==
    FetchOne(th, "get_user_last_file_content")

\* Lines 69-74, then line 75: fetchall() takes every row the cursor holds.
get_all_files_execute(th) ==
    ExecuteSelect(th, "get_all_files", NoArg, Rows_get_all_files(files, users))

get_all_files_fetchall(th) ==
    /\ tpc[th] = "get_all_files"
    /\ tres' = [tres EXCEPT ![th] = Some(Result("get_all_files", targ[th], cur))]
    /\ cur' = << >>
    /\ tpc' = [tpc EXCEPT ![th] = "idle"]
    /\ UNCHANGED <<storeVars, sessionVars, ev, targ, completed, extractVars>>

\* Line 78, then lines 79-80.  hit records whether the id named a row when
\* the statement ran.
get_file_content_by_id_execute(th, fid) ==
    ExecuteSelect(th, "get_file_content_by_id", Arg(fid, fid \in FileIds(files)),
                  Rows_get_file_content_by_id(files, fid))

get_file_content_by_id_fetchone(th) == FetchOne(th, "get_file_content_by_id")

\* Line 43: the INSERT; a registered email violates UNIQUE and raises.
add_user_execute(th, nm, email, password, dob) ==
    /\ tpc[th] = "idle"
    /\ Len(users) < MaxUsers
    /\ ~user_exists(users, email)
    /\ users' = add_user(users, nm, email, password, dob)
    /\ cur' = << >>
    /\ tpc' = [tpc EXCEPT ![th] = "add_user"]
    /\ targ' = [targ EXCEPT ![th] = NoArg]
    /\ tres' = [tres EXCEPT ![th] = None]
    /\ UNCHANGED <<files, seq, sessionVars, ev, completed, extractVars>>

\* Line 44.
add_user_commit(th) ==
    /\ tpc[th] = "add_user"
    /\ tpc' = [tpc EXCEPT ![th] = "idle"]
    /\ tres' = [tres EXCEPT ![th] = Some(Result("add_user", targ[th], << >>))]
    /\ UNCHANGED <<storeVars, sessionVars, ev, cur, targ, completed, extractVars>>

\* Line 59: the INSERT; the thread's row gets its id here.
save_file_execute(th, uid, filename, content) ==
    /\ tpc[th] = "idle"
    /\ seq < MaxConcFiles
    /\ files' = save_file(files, seq, uid, filename, content)
    /\ seq' = files'[Len(files')].id
    /\ cur' = << >>
    /\ tpc' = [tpc EXCEPT ![th] = "save_file"]
    /\ targ' = [targ EXCEPT ![th] = Arg(files'[Len(files')].id, TRUE)]
    /\ tres' = [tres EXCEPT ![th] = None]
    /\ UNCHANGED <<users, sessionVars, ev, completed, extractVars>>

\* Line 60: conn.commit() returns and the create call is complete.
save_file_commit(th) ==
    /\ tpc[th] = "save_file"
    /\ tpc' = [tpc EXCEPT ![th] = "idle"]
    /\ tres' = [tres EXCEPT ![th] = Some(Result("save_file", targ[th], << >>))]
    /\ completed' = Append(completed, targ[th].n)
    /\ UNCHANGED <<storeVars, sessionVars, ev, cur, targ, extractVars>>

\* The texts an accepted upload can store.
StoredTexts == {extract_pdf_text(pdf) : pdf \in UploadPDFs} \ {<< >>}

NextConc ==
    \/ \E th \in Sessions, f \in ConcForms, p \in SignupPasswords, d \in Dobs :
          add_user_execute(th, f[1], f[2], p, d)
    \/ \E th \in Sessions : add_user_commit(th)
    \/ \E th \in Sessions, e \in Emails, p \in SignupPasswords :
          get_user_execute(th, e, p)
    \/ \E th \in Sessions : get_user_fetchone(th)
    \/ \E th \in Sessions, e \in Emails : user_exists_execute(th, e)
    \/ \E th \in Sessions : user_exists_fetchone(th)
    \/ \E th \in Sessions, uid \in 1..MaxUsers, f \in Filenames, x \in StoredTexts :
          save_file_execute(th, uid, f, x)
    \/ \E th \in Sessions : save_file_commit(th)
    \/ \E th \in Sessions, uid \in 1..MaxUsers :
          get_user_last_file_content_execute(th, uid)
    \/ \E th \in Sessions : get_user_last_file_content_fetchone(th)
    \/ \E th \in Sessions : get_all_files_execute(th)
    \/ \E th \in Sessions : get_all_files_fetchall(th)
    \/ \E th \in Sessions, fid \in 1..MaxConcFiles :
          get_file_content_by_id_execute(th, fid)
    \/ \E th \in Sessions : get_file_content_by_id_fetchone(th)

SpecConc == Init /\ [][NextConc]_vars

-----------------------------------------------------------------------------
(* Properties of the script runs *)

\* The stored text of the file with id fid.
StoredText(fid) == FileById(files, fid).content

\* The ops of a run that loaded or stored a document for its session.
CacheOps == {"login_ok", "upload_ok", "qa_view", "qa_answer", "qa_error", "load_ok"}

\* C3: in every state a session's cached text, when present, is the stored
\* text of the document the session last uploaded, selected on the Q&A page,
\* or was given at login; and a session's cache changes only in a run of that
\* session that logs in, uploads or selects (or when the session is replaced).
C3_CacheIsSelectedText ==
    /\ [](\A s \in Sessions :
            book_content[s] # None =>
                /\ selected[s] \in FileIds(files)
                /\ book_content[s] = Some(StoredText(selected[s])))
    /\ [][\A s \in Sessions :
            book_content'[s] # book_content[s] =>
                /\ ev'.s = s
                /\ ev'.op \in CacheOps \cup {"new_session"}
                /\ ev'.op = "new_session" => book_content'[s] = None]_vars

\* C3 witness: a session has selected, on the Q&A page, a document of another
\* owner whose text differs from the text of its own latest upload.
C3_Witness ==
    /\ ev.op = "qa_view"
    /\ book_content[ev.s] # None
    /\ selected[ev.s] \in FileIds(files)
    /\ FileById(files, selected[ev.s]).user_id # user_id[ev.s]
    /\ get_user_last_file_content(files, user_id[ev.s]) # None
    /\ get_user_last_file_content(files, user_id[ev.s]) # book_content[ev.s]

\* C5 (as claimed): whenever a file is stored, the option list has as many
\* entries as there are stored files, entry i carries the label of the i-th
\* most recent file, and the files are listed most recent first.
C5_ListMatchesStore ==
    files # << >> =>
        LET all_files == get_all_files(files, users)
            keys == OptionKeys(all_files)
        IN  /\ Len(keys) = Len(files)
            /\ \A i \in 1..Len(keys) : keys[i] = Label(all_files[i])
            /\ \A i \in 1..(Len(all_files) - 1) : all_files[i].id > all_files[i + 1].id

\* C6 (as claimed): a label resolves to the id of the first listed row that
\* carries it, which is the most recently created file with that label.
C6_ResolvesToFirstMatch ==
    LET all_files == get_all_files(files, users)
        keys == OptionKeys(all_files)
    IN  \A k \in 1..Len(keys) :
            LET first == CHOOSE i \in 1..Len(all_files) :
                            /\ Label(all_files[i]) = keys[k]
                            /\ \A j \in 1..(i - 1) : Label(all_files[j]) # keys[k]
            IN  OptionValue(all_files, keys[k]) = all_files[first].id

\* The ids of the files owned by uid.
OwnedIds(uid) == {fid \in FileIds(files) : FileById(files, fid).user_id = uid}

\* C7: for every owner id, get_user_last_file_content gives the text of the
\* owner's file with the greatest id, whatever other owners stored later, and
\* None when the owner has no file; a login caches exactly that.
C7_LatestForOwner ==
    /\ \A uid \in 0..(MaxUsers + 1) :
          get_user_last_file_content(files, uid) =
              IF OwnedIds(uid) = {} THEN None
              ELSE Some(StoredText(MaxOf(OwnedIds(uid))))
    /\ ev.op = "login_ok" =>
          book_content[ev.s] =
              IF OwnedIds(user_id[ev.s]) = {} THEN None
              ELSE Some(StoredText(MaxOf(OwnedIds(user_id[ev.s]))))

\* C7 witness: files D1 (owner o), D2 (another owner), D3 (owner o) are stored,
\* D3's text differs from the others', and a login of o has cached D3's text.
C7_Witness ==
    /\ ev.op = "login_ok"
    /\ Len(files) = 3
    /\ files[1].user_id = user_id[ev.s]
    /\ files[2].user_id # user_id[ev.s]
    /\ files[3].user_id = user_id[ev.s]
    /\ files[3].content # files[1].content
    /\ files[3].content # files[2].content
    /\ book_content[ev.s] = Some(files[3].content)

\* C8: every stored file has non-empty text, and the run of an upload whose
\* extraction gave the empty string stores nothing.
C8_StoredTextNonEmpty ==
    /\ [](\A i \in 1..Len(files) : files[i].content # << >>)
    /\ [][ev'.op = "upload_empty" => files' = files /\ seq' = seq]_vars

\* C8 witness: an upload was rejected while files are stored.
C8_Witness ==
    /\ ev.op = "upload_empty"
    /\ files # << >>

\* C9: a run whose extraction failed changes neither the tables nor any
\* session; a run that called the model, whether the call returned or raised,
\* changes no table, leaves every login as it was, and leaves the session's
\* cache holding the text of the document it selected.
C9_FailuresChangeNothing ==
    [][/\ ev'.op = "upload_empty" =>
            /\ <<users, files, seq>>' = <<users, files, seq>>
            /\ <<logged_in, user_id, name, book_content>>' =
                   <<logged_in, user_id, name, book_content>>
       /\ ev'.op \in {"qa_answer", "qa_error"} =>
            /\ <<users, files, seq>>' = <<users, files, seq>>
            /\ <<logged_in, user_id, name>>' = <<logged_in, user_id, name>>
            /\ logged_in'[ev'.s]
            /\ book_content'[ev'.s] = Some(StoredText(selected'[ev'.s]))
            /\ \A s \in Sessions \ {ev'.s} : book_content'[s] = book_content[s]
      ]_vars

\* C9 witness: the model call of a logged-in session with a cached text raised.
C9_Witness ==
    /\ ev.op = "qa_error"
    /\ logged_in[ev.s]
    /\ book_content[ev.s] # None

\* C10: no run changes or removes a stored file, and an accepted upload adds
\* exactly one file, with an id no stored file has.
C10_AppendOnly ==
    [][/\ Len(files') >= Len(files)
       /\ \A i \in 1..Len(files) : files'[i] = files[i]
       /\ ev'.op = "upload_ok" =>
            /\ Len(files') = Len(files) + 1
            /\ files'[Len(files')].id \notin FileIds(files)
      ]_vars

\* C10 witness: after a re-upload, two files of one owner carry the same file
\* name and different texts.
C10_Witness ==
    /\ ev.op = "upload_ok"
    /\ \E i, j \in 1..Len(files) :
          /\ i < j
          /\ files[i].user_id = files[j].user_id
          /\ files[i].filename = files[j].filename
          /\ files[i].content # files[j].content

\* C4: the load step for an id that names no stored file ends in the "Could
\* not load the selected book" outcome and leaves every session's cache and
\* selection as they were.
C4_NotFoundKeepsCache ==
    [][\A s \in Sessions, fid \in ProbeIds :
          (fid \notin FileIds(files) /\ LoadSelectedCall(s, fid)) =>
              /\ ev'.op = "load_could_not_load"
              /\ book_content' = book_content
              /\ selected' = selected
      ]_vars

\* C4 witness: the load step could not load while the session held a cached
\* text, and the cache still holds the text of the earlier selection.
C4_Witness ==
    /\ ev.op = "load_could_not_load"
    /\ book_content[ev.s] # None
    /\ book_content[ev.s] = Some(StoredText(selected[ev.s]))

-----------------------------------------------------------------------------
(* Properties of the store helpers under interleaving *)

\* What get_file_content_by_id returns from the row it fetched: row[0], or
\* None.
Returned(res) == IF res.rows = << >> THEN None ELSE Some(res.rows[1][1])

\* C1 (as claimed): the ids of the inserted files are pairwise distinct and
\* strictly increasing in the order in which the save_file calls returned.
C1_IdsIncreaseInCompletionOrder ==
    \A i, j \in 1..Len(completed) : i < j => completed[i] < completed[j]

\* C2 (as claimed): a finished get_file_content_by_id(fid) returned the stored
\* text of the file with id fid when the id named a row, and None when it
\* named none.
C2_GetTextReturnsThatDocument ==
    \A th \in Sessions :
        (tres[th] # None /\ tres[th][1].fn = "get_file_content_by_id") =>
            Returned(tres[th][1]) =
                IF tres[th][1].arg.hit
                THEN Some(TextV(StoredText(tres[th][1].arg.n)))
                ELSE None

-----------------------------------------------------------------------------
(* Login seeding, round trip, empty catalogue, login gate *)

\* The text of the most recently inserted file of owner uid in fs, or None.
LatestTextOf(fs, uid) ==
    LET own == {i \in 1..Len(fs) : fs[i].user_id = uid}
    IN  IF own = {} THEN None ELSE Some(fs[MaxOf(own)].content)

\* C11: a run that logs a session in leaves its cache holding the text of the
\* latest file the user owns at that moment, and None when the user owns no
\* file, whatever files other users own; a failed login leaves the cache as
\* it was.
C11_LoginSeedsCache ==
    [][/\ ev'.op = "login_ok" =>
            /\ logged_in'[ev'.s] /\ ~logged_in[ev'.s]
            /\ book_content'[ev'.s] = LatestTextOf(files, user_id'[ev'.s])
            /\ files' = files
       /\ ev'.op = "login_invalid" => book_content' = book_content
      ]_vars

\* C11 witness: a user who owns no file has logged in while another user
\* owns one, and the session's cache is empty.
C11_Witness ==
    /\ ev.op = "login_ok"
    /\ files # << >>
    /\ \A i \in 1..Len(files) : files[i].user_id # user_id[ev.s]
    /\ book_content[ev.s] = None

\* C11 second case, reached as well: the user owns files and the cache holds
\* the latest one although a file of another user is newer.
C11_SeededFromOwnLatest ==
    /\ ev.op = "login_ok"
    /\ Len(files) >= 2
    /\ files[Len(files)].user_id # user_id[ev.s]
    /\ book_content[ev.s] # None
    /\ book_content[ev.s] # Some(files[Len(files)].content)

\* C12: the file a successful upload has just inserted reads back, by its id,
\* as exactly the text that was passed to save_file (the text the same run
\* put in the cache), and every file inserted earlier still reads back as
\* its own text afterwards, whoever uploads.
C12_RoundTrip ==
    /\ [](\A i \in 1..Len(files) :
            get_file_content_by_id(files, files[i].id) = Some(files[i].content))
    /\ [][ev'.op = "upload_ok" =>
            /\ Len(files') = Len(files) + 1
            /\ get_file_content_by_id(files', files'[Len(files')].id)
                 = book_content'[ev'.s]
            /\ \A fid \in FileIds(files) :
                 get_file_content_by_id(files', fid)
                   = get_file_content_by_id(files, fid)
         ]_vars

\* C12 witness: three files of two owners with two different texts are
\* stored, and the first one, of another owner than the last, reads back
\* as its text, which is not the last one's.
C12_Witness ==
    /\ Len(files) = 3
    /\ files[1].user_id # files[3].user_id
    /\ files[1].content # files[3].content
    /\ get_file_content_by_id(files, files[1].id) = Some(files[1].content)

\* The branches of the Q&A page.
QAOps == {"qa_login_first", "qa_no_books", "qa_could_not_load", "qa_view",
          "qa_answer", "qa_error"}

\* C13: the Q&A page reports that there are no books exactly when the files
\* table is empty; that run selects nothing, fetches no text, leaves every
\* session's cache and the store as they were and calls the model zero
\* times; and while the table is empty no run of the page takes a branch
\* that selects a file or calls the model.
C13_EmptyCatalog ==
    [][/\ ev'.op = "qa_no_books" =>
            /\ files = << >>
            /\ logged_in[ev'.s]
            /\ book_content' = book_content
            /\ selected' = selected
            /\ <<users', files', seq'>> = <<users, files, seq>>
            /\ ev'.calls = 0 /\ ev'.prompt = << >> /\ ev'.shown = NoOutput
       /\ (files = << >> /\ ev'.op \in QAOps) =>
            /\ ev'.op \in {"qa_login_first", "qa_no_books"}
            /\ ev'.calls = 0
       /\ (files # << >> /\ ev'.op \in QAOps /\ logged_in[ev'.s]) =>
            ev'.op # "qa_no_books"
      ]_vars

\* C13 witness: a logged-in session has opened the Q&A page while no file
\* is stored, and was told so.
C13_Witness ==
    /\ ev.op = "qa_no_books"
    /\ files = << >>
    /\ logged_in[ev.s]
    /\ users # << >>
    /\ book_content[ev.s] = None
    /\ selected[ev.s] = 0

-----------------------------------------------------------------------------
(* Extraction *)

\* The pages that yield text, in page order.
TextPages(pages) == SelectSeq(pages, LAMBDA pg : pg # << >>)

\* The texts of ps with one newline between neighbours.
RECURSIVE JoinNL(_)
JoinNL(ps) ==
    IF ps = << >> THEN << >>
    ELSE IF Len(ps) = 1 THEN ps[1]
    ELSE ps[1] \o <<"\n">> \o JoinNL(Tail(ps))

\* The text has a character that is not white space.
HasInk(s) == \E i \in 1..Len(s) : s[i] \notin Whitespace

\* C14 as stated: for a PDF with at least one page yielding non-empty text,
\* extract_pdf_text returns a non-empty string, equal to the trimmed
\* newline-join of the text-yielding pages in page order.
C14_NonEmptyTrimmedJoin ==
    (extracted # None /\ TextPages(uploaded_file) # << >>) =>
        /\ extracted[1] # << >>
        /\ extracted[1] = Strip(JoinNL(TextPages(uploaded_file)))

\* C14 amended: extract_pdf_text returns the trimmed newline-join of the
\* text-yielding pages in page order, pages yielding no text being skipped;
\* the result is non-empty exactly when some page's text has a character
\* that is not white space.
C14_TrimmedJoin ==
    extracted # None =>
        /\ extracted[1] = Strip(JoinNL(TextPages(uploaded_file)))
        /\ extracted[1] # << >> <=>
             \E i \in 1..Len(uploaded_file) : HasInk(uploaded_file[i])

\* C14 witness: a PDF of MaxPages pages, one of them without text and two
\* with text, has been extracted; the result is not empty, it holds the
\* newline between the two texts, and it is shorter than the untrimmed join.
C14_Witness ==
    /\ extracted # None
    /\ Len(uploaded_file) = MaxPages
    /\ \E i \in 1..Len(uploaded_file) : uploaded_file[i] = << >>
    /\ Len(TextPages(uploaded_file)) >= 2
    /\ extracted[1] # << >>
    /\ Len(extracted[1]) < Len(JoinNL(TextPages(uploaded_file)))
    /\ \E i \in 1..Len(extracted[1]) : extracted[1][i] = "\n"

\* C14, the case the statement gets wrong, reached as well: the only page
\* with text holds white space, and the result is the empty string.
C14_WhitespaceOnly ==
    /\ extracted = Some(<< >>)
    /\ TextPages(uploaded_file) # << >>

-----------------------------------------------------------------------------
(* Get Answer *)

\* part occurs in whole, starting at position i.
OccursAt(part, whole, i) ==
    /\ i + Len(part) - 1 <= Len(whole)
    /\ SubSeq(whole, i, i + Len(part) - 1) = part

\* C15: a run of the Q&A page in which Get Answer was pressed calls the
\* model exactly once, whether the call returns or raises; the prompt holds
\* the whole text of the selected file and, after it, the question; when
\* the call returns the page shows exactly the response's text, and when
\* it raises the page shows the error.  A run without the press calls the
\* model zero times.
C15_OneCallFullTextThenQuestion ==
    [][/\ ev'.op \in {"qa_answer", "qa_error"} =>
            LET c == StoredText(selected'[ev'.s])
                q == ev'.question
            IN  /\ ev'.calls = 1
                /\ c # << >>
                /\ \E i \in 1..Len(ev'.prompt) :
                      /\ OccursAt(c, ev'.prompt, i)
                      /\ \E j \in (i + Len(c))..(Len(ev'.prompt) + 1) :
                            OccursAt(q, ev'.prompt, j)
                /\ ev'.op = "qa_answer" =>
                      /\ ev'.model.kind = "answer"
                      /\ ev'.shown = [kind |-> "answer", text |-> ev'.model.text]
                /\ ev'.op = "qa_error" =>
                      /\ ev'.model.kind = "error"
                      /\ ev'.shown.kind = "error"
                      /\ ev'.shown.text = "Error: " \o ev'.model.text
                /\ <<users', files', seq'>> = <<users, files, seq>>
       /\ ev'.op \notin {"qa_answer", "qa_error"} =>
            ev'.calls = 0 /\ ev'.shown = NoOutput
      ]_vars

\* C15 witness: with two files of different texts stored, a session asked a
\* non-empty question about the older one; the one call returned "r2" and
\* the page shows "r2".
C15_Witness ==
    /\ ev.op = "qa_answer"
    /\ ev.calls = 1
    /\ ev.question # << >>
    /\ ev.shown = [kind |-> "answer", text |-> "r2"]
    /\ Len(files) >= 2
    /\ selected[ev.s] = files[1].id
    /\ files[1].content # files[Len(files)].content

\* C15, the failing call, reached as well: the one call raised and the page
\* shows the error.
C15_ErrorSurfaced ==
    /\ ev.op = "qa_error"
    /\ ev.calls = 1
    /\ ev.shown = [kind |-> "error", text |-> "Error: quota"]

-----------------------------------------------------------------------------
(* Login gate *)

\* C16: a session that is not logged in holds no user id, no cached text and
\* no selection; every stored file's user_id is the id of a users row; the
\* run that inserts a file is a run of a logged-in session and the new row
\* carries that session's user id; a cache or a selection is set only for
\* the session of the run, which is logged in when the run ends; and only a
\* logged-in session's run calls the model.
C16_LoggedInOnly ==
    /\ [](\A s \in Sessions :
            ~logged_in[s] =>
                user_id[s] = 0 /\ book_content[s] = None /\ selected[s] = 0)
    /\ [](\A s \in Sessions : logged_in[s] => user_id[s] \in 1..Len(users))
    /\ [](\A i \in 1..Len(files) : files[i].user_id \in 1..Len(users))
    /\ [][/\ files' # files =>
               /\ logged_in[ev'.s]
               /\ files' = Append(files, files'[Len(files')])
               /\ files'[Len(files')].user_id = user_id[ev'.s]
               /\ users[user_id[ev'.s]].id = user_id[ev'.s]
          /\ \A s \in Sessions :
               (\/ (book_content'[s] # book_content[s] /\ book_content'[s] # None)
                \/ (selected'[s] # selected[s] /\ selected'[s] # 0)) =>
                   s = ev'.s /\ logged_in'[s]
          /\ ev'.calls > 0 => logged_in[ev'.s]
          /\ ev'.op = "qa_login_first" =>
               /\ ~logged_in[ev'.s]
               /\ ev'.calls = 0
               /\ <<files', book_content', selected'>>
                    = <<files, book_content, selected>>
         ]_vars

\* C16 witness: a logged-in session has just uploaded a file, which carries
\* its user id, while files of another user are stored and the other session
\* is not logged in and holds nothing.
C16_Witness ==
    /\ ev.op = "upload_ok"
    /\ files[Len(files)].user_id = user_id[ev.s]
    /\ \E i \in 1..Len(files) : files[i].user_id # user_id[ev.s]
    /\ \E s \in Sessions :
          ~logged_in[s] /\ book_content[s] = None /\ selected[s] = 0

\* C16, the refused page, reached as well: a session that is not logged in
\* opened the Q&A page while files are stored, and got the login warning.
C16_GateRefused ==
    /\ ev.op = "qa_login_first"
    /\ files # << >>
    /\ ~logged_in[ev.s]

====
